---- MODULE Spec2Model ----
(***************************************************************************)
(* State-machine model of src/src/App.tsx (kanji study site): the React    *)
(* component's state, its event handlers and effects, and the pure string  *)
(* helpers they call.                                                      *)
(*                                                                         *)
(* A JavaScript string is modelled as a sequence of characters; each       *)
(* character is a one-element TLA+ string naming it.                       *)
(***************************************************************************)
EXTENDS Integers, Sequences, FiniteSets, TLC

\* ------------------------------------------------------------------------
\* Characters
\* ------------------------------------------------------------------------

\* the single quote that delimits okurigana, U+0027
Apostrophe == "'"
\* the full-width comma that separates alternative readings, U+3001
Touten == "touten"
\* a white-space character (what String.prototype.trim removes)
Space == " "
\* the field separator and the quote of a CSV line
Comma == ","
DQuote == "\""

\* ------------------------------------------------------------------------
\* Bounds of the model
\* ------------------------------------------------------------------------

\* most answers counted in one session (caps the score counters)
MaxAnswers == 2
\* most fetches in flight at once, once a working set exists (one more
\* while the user has only loaded and browsed)
MaxPending == 1
\* longest reading string of the answer-validation specification
MaxReadingLen == 5
\* most rows of a catalog of the genre-filter specification
MaxGenreRows == 2
\* most fields of a data row of the row-mapping specification
MaxCols == 4
\* longest data line of the line-parsing specification
MaxLineLen == 4
\* largest pool of the choice-generation specification
MaxPool == 4

\* ------------------------------------------------------------------------
\* String helpers (JavaScript built-ins used by the source)
\* ------------------------------------------------------------------------

\* the empty string ''
Empty == <<>>

\* all strings over alphabet A of length at most n
StringsUpTo(A, n) == UNION {[1..k -> A] : k \in 0..n}

\* String.prototype.trim: drop leading white space
RECURSIVE TrimStart(_)
TrimStart(s) ==
  IF s # Empty /\ Head(s) = Space THEN TrimStart(Tail(s)) ELSE s

\* String.prototype.trim: drop trailing white space
RECURSIVE TrimEnd(_)
TrimEnd(s) ==
  IF s # Empty /\ s[Len(s)] = Space THEN TrimEnd(SubSeq(s, 1, Len(s) - 1)) ELSE s

\* String.prototype.trim
Trim(s) == TrimEnd(TrimStart(s))

\* String.prototype.indexOf for one character, 1-based; 0 when absent
IndexOfChar(s, c) ==
  IF \E i \in 1..Len(s) : s[i] = c
  THEN CHOOSE i \in 1..Len(s) : s[i] = c /\ \A j \in 1..(i - 1) : s[j] # c
  ELSE 0

\* String.prototype.split(sep) for a one-character separator
RECURSIVE Split(_, _)
Split(s, sep) ==
  LET i == IndexOfChar(s, sep)
  IN IF i = 0 THEN <<s>>
     ELSE <<SubSeq(s, 1, i - 1)>> \o Split(SubSeq(s, i + 1, Len(s)), sep)

\* String.prototype.includes: sub is a contiguous sub-string of s
Includes(s, sub) ==
  \E i \in 0..(Len(s) - Len(sub)) : SubSeq(s, i + 1, i + Len(sub)) = sub

\* concatenation of a sequence of strings (Array.prototype.join(''))
RECURSIVE Join(_)
Join(ss) == IF ss = <<>> THEN Empty ELSE Head(ss) \o Join(Tail(ss))

\* the orders Array.prototype.sort may leave an array in under the
\* comparator () => Math.random() - 0.5: any permutation of it
Shuffles(arr) ==
  LET n == Len(arr)
      Bij == {p \in [1..n -> 1..n] : \A i, j \in 1..n : p[i] = p[j] => i = j}
  IN {[i \in 1..n |-> arr[p[i]]] : p \in Bij}

\* ------------------------------------------------------------------------
\* CSV lines
\* ------------------------------------------------------------------------

\* the loop of parseCSVLine over the characters left, with the fields pushed
\* so far, the field being built and the quote mode
RECURSIVE parseCSVLoop(_, _, _, _)
parseCSVLoop(rest, result, current, inQuotes) ==
  IF rest = Empty THEN Append(result, current)
  ELSE LET char == Head(rest)
       IN IF char = DQuote
          THEN parseCSVLoop(Tail(rest), result, current, ~inQuotes)
          ELSE IF char = Comma /\ ~inQuotes
               THEN parseCSVLoop(Tail(rest), Append(result, current), Empty, inQuotes)
               ELSE parseCSVLoop(Tail(rest), result, Append(current, char), inQuotes)

\* variant of parseCSVLine: the quotes are dropped and every comma separates
parseCSVLineSplitsAll(line) ==
  LET noQuote(c) == c # DQuote IN Split(SelectSeq(line, noQuote), Comma)

\* parseCSVLine: the fields of a line
parseCSVLine(line) == parseCSVLoop(line, <<>>, Empty, FALSE)

\* ------------------------------------------------------------------------
\* Reading annotation
\* ------------------------------------------------------------------------

\* the segments of formatReadingWithOkurigana, scanning rest with plain the
\* text met since lastIndex: the regex /'([^']+)'/g matches a quote, one or
\* more characters that are no quote, and a quote; a quote that opens no
\* match is plain text
RECURSIVE formatSegments(_, _)
formatSegments(plain, rest) ==
  LET before == IF plain # Empty
                THEN << [text |-> plain, okurigana |-> FALSE] >>
                ELSE << >>
  IN IF rest = Empty THEN before
     ELSE IF Head(rest) = Apostrophe
          THEN LET t == Tail(rest)
                   close == IndexOfChar(t, Apostrophe)
               IN IF close >= 2
                  THEN before
                       \o << [text |-> SubSeq(t, 1, close - 1), okurigana |-> TRUE] >>
                       \o formatSegments(Empty, SubSeq(t, close + 1, Len(t)))
                  ELSE formatSegments(plain \o <<Apostrophe>>, t)
          ELSE formatSegments(plain \o <<Head(rest)>>, Tail(rest))

\* formatReadingWithOkurigana: the spans it returns, in order, each with its
\* text and whether it is shown as okurigana (in red)
formatReadingWithOkurigana(reading) == formatSegments(Empty, reading)

\* variant of extractReadingCore: replace without the g flag, only the first
\* quoted span is removed
extractReadingCoreFirstOnly(reading) ==
  LET open == IndexOfChar(reading, Apostrophe)
      rest == SubSeq(reading, open + 1, Len(reading))
      close == IndexOfChar(rest, Apostrophe)
  IN IF open = 0 \/ close = 0 THEN reading
     ELSE SubSeq(reading, 1, open - 1) \o SubSeq(rest, close + 1, Len(rest))

\* reading.replace(/'[^']*'/g, ''): every quoted span, leftmost first, is
\* removed with its quotes; a quote with no closing quote stays
RECURSIVE extractReadingCore(_)
extractReadingCore(reading) ==
  IF reading = Empty THEN Empty
  ELSE IF Head(reading) = Apostrophe
       THEN LET rest == Tail(reading)
                close == IndexOfChar(rest, Apostrophe)
            IN IF close = 0 THEN reading
               ELSE extractReadingCore(SubSeq(rest, close + 1, Len(rest)))
       ELSE <<Head(reading)>> \o extractReadingCore(Tail(reading))

\* ------------------------------------------------------------------------
\* Data
\* ------------------------------------------------------------------------

\* type Level and the level buttons
levels == {4, 5, 6, 7, 8}

\* variant of readyLevels: level 6 is fetched too
readyLevelsWith6 == {6, 7, 8}

\* the levels load() fetches a CSV for
readyLevels == {7, 8}

\* type QuizFormat
QuizFormats == {"input", "choice"}

\* the error texts load() sets ('準備中です', '読み込みに失敗しました') and null
ErrNull == "null"
ErrNotReady == "junbichuu"
ErrLoadFailed == "yomikomi_shippai"

\* type Item, the fields the handlers read
Item(reading, additionalInfo, components) ==
  [reading |-> reading, additionalInfo |-> additionalInfo, components |-> components]

\* the value undefined of a property that was never set: a marker that is
\* no string of the model
Undefined == <<"undefined">>

\* the key load() stores field i of a row under (i counts from 1 here):
\* header[i] || `col${i}`
rowKey(header, i) ==
  IF i <= Len(header) /\ header[i] # "" THEN header[i] ELSE "col" \o ToString(i - 1)

\* d[key] for the object load() builds from a row: the trimmed field stored
\* last under the key, undefined when none was
rowField(header, cols, key) ==
  LET at == {i \in 1..Len(cols) : rowKey(header, i) = key}
  IN IF at = {} THEN Undefined
     ELSE Trim(cols[CHOOSE i \in at : \A j \in at : j <= i])

\* header.includes('path') ? 'path' : (header.includes('filename') ?
\* 'filename' : header[0])
filenameField(header) ==
  IF \E i \in 1..Len(header) : header[i] = "path" THEN "path"
  ELSE IF \E i \in 1..Len(header) : header[i] = "filename" THEN "filename"
  ELSE header[1]

\* value || '' for a value that is a string or undefined
orEmpty(value) == IF value = Undefined THEN Empty ELSE value

\* the Item load() maps a row to; the path prefix `/kanji/level-N/` of
\* imageUrl is one element, and undefined is spelled out after it
mapRow(header, cols) ==
  LET fname == rowField(header, cols, filenameField(header))
  IN [ filename |-> fname,
       reading |-> orEmpty(rowField(header, cols, "reading")),
       meaning |-> rowField(header, cols, "meaning"),
       imageUrl |-> IF fname # Undefined /\ fname # Empty /\ Head(fname) = "/"
                    THEN fname
                    ELSE <<"/kanji/level-N/">> \o fname,
       additionalInfo |-> orEmpty(rowField(header, cols, "additional_info")),
       components |-> orEmpty(rowField(header, cols, "components")) ]

\* genre label '動物', one character per element
GenreDoubutsu == <<"dou", "butsu">>
\* genre label '人名'
GenreJinmei == <<"jin", "mei">>

\* two rows of a CSV file: a reading with okurigana and a genre, and a reading
\* that is okurigana only (its core is empty) with a component and no genre
EntryA == Item(<<"a", Apostrophe, "b", Apostrophe>>, GenreDoubutsu, Empty)
EntryB == Item(<<Apostrophe, "b", Apostrophe>>, Empty, <<"k">>)

\* the catalogs a successful fetch can deliver: a CSV file with a header
\* only, with one row, with two rows
Catalogs == {<<>>, <<EntryB>>, <<EntryA, EntryB>>}

\* the texts the user types into the quiz input
TypedTexts == {Empty, <<"a">>}

\* the value of the state variable items: null, or an array of Item
ItemsNull == [null |-> TRUE, arr |-> <<>>]
ItemsOf(arr) == [null |-> FALSE, arr |-> arr]

\* what alert() was called with by the handler that ran last, if it was
NoAlert == [shown |-> FALSE, correct |-> 0, incorrect |-> 0]
AlertOf(sc) == [shown |-> TRUE, correct |-> sc.correct, incorrect |-> sc.incorrect]

\* ------------------------------------------------------------------------
\* Catalog filter (the list view)
\* ------------------------------------------------------------------------

\* the genre select's options 'all' and 'ジャンルなし'
GenreAll == <<"a", "l", "l">>
GenreNashi == <<"ji_k", "ya", "n", "ru", "na", "shi">>

\* definedGenres, one character per element: 動物, 植物・藻類, 地名・建造物,
\* 人名, スラング, 飲食, 単位, 演目・外題, 則天文字, チュノム, 元素, 嘘字,
\* 簡体字, 文学の漢字, 字義未詳, 西夏文字
definedGenres ==
  << GenreDoubutsu,
     <<"shoku", "butsu", "nakaguro", "sou", "rui">>,
     <<"chi", "mei", "nakaguro", "ken", "zou", "butsu">>,
     GenreJinmei,
     <<"su", "ra", "n", "gu">>,
     <<"in", "jiki">>,
     <<"tan", "i">>,
     <<"en", "moku", "nakaguro", "ge", "dai">>,
     <<"soku", "ten", "mon", "ji">>,
     <<"chi_k", "yu", "no", "mu">>,
     <<"gen", "so">>,
     <<"uso", "ji">>,
     <<"kan", "tai", "ji">>,
     <<"mon", "gaku", "no_h", "kan_j", "ji">>,
     <<"ji", "gi", "mi", "shou">>,
     <<"sei", "ka", "mon", "ji">> >>

\* genres, the options of the genre select
genres == <<GenreAll, GenreNashi>> \o definedGenres

\* String.prototype.toLowerCase on one character
LowerChar(c) == IF c = "A" THEN "a" ELSE IF c = "K" THEN "k" ELSE c

\* String.prototype.toLowerCase
toLowerCase(s) == [i \in 1..Len(s) |-> LowerChar(s[i])]

\* reading.match(/'([^']+)'/g) with the quotes of each match removed: the
\* texts of the non-empty quoted spans, leftmost first; a quote directly
\* followed by a quote opens no span, and the scan resumes at the second
RECURSIVE okuriganaMatches(_)
okuriganaMatches(reading) ==
  IF reading = Empty THEN <<>>
  ELSE IF Head(reading) = Apostrophe
       THEN LET rest == Tail(reading)
                close == IndexOfChar(rest, Apostrophe)
            IN IF close >= 2
               THEN <<SubSeq(rest, 1, close - 1)>>
                    \o okuriganaMatches(SubSeq(rest, close + 1, Len(rest)))
               ELSE okuriganaMatches(rest)
       ELSE okuriganaMatches(Tail(reading))

\* components.split(/\s+/).filter(c => c): the maximal runs of non-space
RECURSIVE componentList(_)
componentList(components) ==
  LET s == TrimStart(components)
      i == IndexOfChar(s, Space)
  IN IF s = Empty THEN <<>>
     ELSE IF i = 0 THEN <<s>>
     ELSE <<SubSeq(s, 1, i - 1)>> \o componentList(SubSeq(s, i + 1, Len(s)))

\* variant of genreFilter: 'ジャンルなし' keeps the entries with no tags text
genreFilterEmptyTags(arr, genre) ==
  LET none(item) == item.additionalInfo = Empty
      has(item) == Includes(item.additionalInfo, genre)
  IN IF genre = GenreAll THEN arr
     ELSE IF genre = GenreNashi THEN SelectSeq(arr, none)
     ELSE SelectSeq(arr, has)

\* the genre filter of the list view
genreFilter(arr, genre) ==
  LET none(item) == ~ \E g \in 1..Len(definedGenres) :
                        Includes(item.additionalInfo, definedGenres[g])
      has(item) == Includes(item.additionalInfo, genre)
  IN IF genre = GenreAll THEN arr
     ELSE IF genre = GenreNashi THEN SelectSeq(arr, none)
     ELSE SelectSeq(arr, has)

\* the search filter of the list view
searchFilter(arr, query, sMode) ==
  LET q == toLowerCase(Trim(query))
      byReading(item) ==
        LET ms == okuriganaMatches(item.reading)
        IN ms # <<>> /\ Includes(toLowerCase(Join(ms)), q)
      byComponent(item) ==
        LET cs == componentList(item.components)
        IN \E c \in 1..Len(cs) : Includes(toLowerCase(Trim(cs[c])), q)
  IN IF Trim(query) = Empty THEN arr
     ELSE IF sMode = "reading" THEN SelectSeq(arr, byReading)
     ELSE SelectSeq(arr, byComponent)

\* filteredItems: the entries the list view shows and counts
filteredItems(arr, genre, query, sMode) ==
  searchFilter(genreFilter(arr, genre), query, sMode)

\* ------------------------------------------------------------------------
\* Choice generation and answer validation
\* ------------------------------------------------------------------------

\* the entries generateChoices draws wrong answers from
choiceOthers(correctItem, allItems) ==
  LET differs(it) == it.reading # correctItem.reading
  IN SelectSeq(allItems, differs)

\* the four slots, given the shuffled others and the correct slot
choicesArray(correctItem, shuffledOthers, correctIndex) ==
  [i \in 1..4 |->
     IF i - 1 = correctIndex
     THEN extractReadingCore(correctItem.reading)
     ELSE LET wrongIndex == IF i - 1 < correctIndex THEN i - 1 ELSE i - 2
          IN IF wrongIndex < 3 /\ wrongIndex < Len(shuffledOthers)
             THEN extractReadingCore(shuffledOthers[wrongIndex + 1].reading)
             ELSE extractReadingCore(Empty)]

\* generateChoices: every result the two random draws allow
generateChoices(correctItem, allItems) ==
  { [choices |-> choicesArray(correctItem, sh, ci), correctIndex |-> ci] :
      sh \in Shuffles(choiceOthers(correctItem, allItems)), ci \in 0..3 }

\* the judgement of checkAnswer: the trimmed input equals the core of one
\* of the trimmed alternatives of the reading
answerMatches(userAnswer, reading) ==
  LET correctOptions == Split(reading, Touten)
      userInput == Trim(userAnswer)
  IN \E o \in 1..Len(correctOptions) :
        userInput = extractReadingCore(Trim(correctOptions[o]))

\* ------------------------------------------------------------------------
\* State of the App component
\* ------------------------------------------------------------------------

VARIABLES
  selectedLevel,       \* useState<Level>(7)
  items,               \* useState<Item[] | null>(null)
  loading,             \* useState(false)
  error,               \* useState<string | null>(null)
  pending,             \* fetches started by load() and not yet handled, by level
  selectedGenre,       \* useState<string>('all')
  searchQuery,         \* useState<string>('')
  searchMode,          \* useState<'reading' | 'component'>('reading')
  mode,                \* useState<Mode>('list')
  quizFormat,          \* useState<QuizFormat>('input')
  quizItems,           \* useState<Item[]>([])
  currentIndex,        \* useState(0)
  userAnswer,          \* useState('')
  showResult,          \* useState(false)
  isCorrect,           \* useState(false)
  score,               \* useState({ correct: 0, incorrect: 0 })
  choices,             \* useState<string[]>([])
  correctChoiceIndex,  \* useState<number>(-1)
  alertMsg,            \* the alert() of the handler that ran last, if any
  answered             \* history: positions of this session with a counted answer

loadVars == <<selectedLevel, items, loading, error, pending>>
listVars == <<selectedGenre, searchQuery, searchMode>>
quizVars == <<mode, quizFormat, quizItems, currentIndex, userAnswer, showResult,
              isCorrect, score>>
choiceVars == <<choices, correctChoiceIndex>>
vars == <<loadVars, listVars, quizVars, choiceVars, alertMsg, answered>>

\* the number of fetches in flight
InFlight == pending[7] + pending[8]

\* the cap on the fetches in flight
PendingCap == IF quizItems = <<>> THEN MaxPending + 1 ELSE MaxPending

\* the list view is rendered: items && mode === 'list'
ListShown == ~items.null /\ mode = "list"

\* the quiz view is rendered: mode === 'quiz' && quizItems.length > 0
QuizShown == mode = "quiz" /\ Len(quizItems) > 0

\* quizItems[currentIndex] is defined
CurrentDefined == currentIndex < Len(quizItems)

\* quizItems[currentIndex]
CurrentItem == quizItems[currentIndex + 1]

\* variant of choiceDepsChanged: currentIndex is left out of the list
choiceDepsChangedNoIndex(m, f, ci, newArray) ==
  m # mode \/ f # quizFormat \/ newArray

\* the dependency list [mode, quizFormat, quizItems, currentIndex] of the
\* choices effect: one of them differs after this step (m, f, ci are the new
\* values; newArray tells that quizItems was set to a new array)
choiceDepsChanged(m, f, ci, newArray) ==
  m # mode \/ f # quizFormat \/ newArray \/ ci # currentIndex

\* the effect that updates the choices: when a dependency changed in this
\* step and a question is shown in choice format, a new choice set replaces
\* the stored one (m, f, qi, ci are the values after the step). React runs
\* the effects of a click before it dispatches the next event, so the
\* effect is part of the step of the handler that changed the dependency.
ChoicesEffect(m, f, qi, ci, newArray) ==
  IF /\ choiceDepsChanged(m, f, ci, newArray)
     /\ m = "quiz" /\ f = "choice" /\ Len(qi) > 0 /\ ci < Len(qi)
  THEN \E r \in generateChoices(qi[ci + 1], qi) :
         /\ choices' = r.choices
         /\ correctChoiceIndex' = r.correctIndex
  ELSE UNCHANGED choiceVars

\* the state after the first render and its effects: load() has started the
\* fetch for level 7
Init ==
  /\ selectedLevel = 7
  /\ items = ItemsNull
  /\ loading = TRUE
  /\ error = ErrNull
  /\ pending = [l \in readyLevels |-> IF l = 7 THEN 1 ELSE 0]
  /\ selectedGenre = GenreAll
  /\ searchQuery = Empty
  /\ searchMode = "reading"
  /\ mode = "list"
  /\ quizFormat = "input"
  /\ quizItems = <<>>
  /\ currentIndex = 0
  /\ userAnswer = Empty
  /\ showResult = FALSE
  /\ isCorrect = FALSE
  /\ score = [correct |-> 0, incorrect |-> 0]
  /\ choices = <<>>
  /\ correctChoiceIndex = -1
  /\ alertMsg = NoAlert
  /\ answered = {}

\* ------------------------------------------------------------------------
\* Loading
\* ------------------------------------------------------------------------

\* variant of SelectLevel: load() empties the working set too
SelectLevelClearsQuiz(level) ==
  /\ level # selectedLevel
  /\ level \in readyLevels => InFlight < PendingCap
  /\ selectedLevel' = level
  /\ items' = ItemsNull
  /\ quizItems' = <<>>
  /\ IF level \notin readyLevels
     THEN /\ loading' = FALSE
          /\ error' = ErrNotReady
          /\ UNCHANGED pending
     ELSE /\ loading' = TRUE
          /\ error' = ErrNull
          /\ pending' = [pending EXCEPT ![level] = @ + 1]
  /\ alertMsg' = NoAlert
  /\ UNCHANGED <<listVars, mode, quizFormat, currentIndex, userAnswer, showResult,
                 isCorrect, score, choiceVars, answered>>

\* a level button, and the effect on [selectedLevel] that runs load()
SelectLevel(level) ==
  /\ level # selectedLevel
  /\ level \in readyLevels => InFlight < PendingCap
  /\ selectedLevel' = level
  /\ items' = ItemsNull
  /\ IF level \notin readyLevels
     THEN /\ loading' = FALSE
          /\ error' = ErrNotReady
          /\ UNCHANGED pending
     ELSE /\ loading' = TRUE
          /\ error' = ErrNull
          /\ pending' = [pending EXCEPT ![level] = @ + 1]
  /\ alertMsg' = NoAlert
  /\ UNCHANGED <<listVars, quizVars, choiceVars, answered>>

\* load() resumes with a response that is ok: the rows become the catalog
FetchOk(level, data) ==
  /\ pending[level] > 0
  /\ pending' = [pending EXCEPT ![level] = @ - 1]
  /\ items' = ItemsOf(data)
  /\ loading' = FALSE
  /\ alertMsg' = NoAlert
  /\ UNCHANGED <<selectedLevel, error, listVars, quizVars, choiceVars, answered>>

\* load() resumes with a rejected fetch or a response that is not ok
FetchFail(level) ==
  /\ pending[level] > 0
  /\ pending' = [pending EXCEPT ![level] = @ - 1]
  /\ error' = ErrLoadFailed
  /\ loading' = FALSE
  /\ alertMsg' = NoAlert
  /\ UNCHANGED <<selectedLevel, items, listVars, quizVars, choiceVars, answered>>

\* ------------------------------------------------------------------------
\* Quiz handlers
\* ------------------------------------------------------------------------

\* the score a session starts with
startScore == [correct |-> 0, incorrect |-> 0]

\* startQuiz, from the start button of the list view
startQuiz ==
  /\ ListShown
  /\ alertMsg' = NoAlert
  /\ IF items.null \/ Len(items.arr) = 0
     THEN UNCHANGED <<quizVars, choiceVars, answered>>
     ELSE \E shuffled \in Shuffles(items.arr) :
            /\ quizItems' = shuffled
            /\ currentIndex' = 0
            /\ userAnswer' = Empty
            /\ showResult' = FALSE
            /\ score' = startScore
            /\ mode' = "quiz"
            /\ answered' = {}
            /\ UNCHANGED <<quizFormat, isCorrect>>
            /\ ChoicesEffect("quiz", quizFormat, shuffled, 0, TRUE)
  /\ UNCHANGED <<loadVars, listVars>>

\* backToList, from the back button of the quiz view
backToList ==
  /\ QuizShown
  /\ mode' = "list"
  /\ userAnswer' = Empty
  /\ showResult' = FALSE
  /\ alertMsg' = NoAlert
  /\ ChoicesEffect("list", quizFormat, quizItems, currentIndex, FALSE)
  /\ UNCHANGED <<loadVars, listVars, quizFormat, quizItems, currentIndex,
                 isCorrect, score, answered>>

\* onChange of the quiz input (input format, disabled once a result shows)
setUserAnswer(text) ==
  /\ QuizShown
  /\ quizFormat = "input"
  /\ ~showResult
  /\ text # userAnswer
  /\ userAnswer' = text
  /\ alertMsg' = NoAlert
  /\ UNCHANGED <<loadVars, listVars, mode, quizFormat, quizItems, currentIndex,
                 showResult, isCorrect, score, choiceVars, answered>>

\* checkAnswer, from the Enter key (any input) or the submit button (enabled
\* when the trimmed input is not empty); MaxAnswers caps the counters here
\* and in the other two answering handlers
checkAnswer ==
  /\ QuizShown
  /\ quizFormat = "input"
  /\ ~showResult
  /\ score.correct + score.incorrect < MaxAnswers
  /\ alertMsg' = NoAlert
  /\ IF ~CurrentDefined
     THEN UNCHANGED <<isCorrect, showResult, score, answered>>
     ELSE LET correct == answerMatches(userAnswer, CurrentItem.reading)
          IN /\ isCorrect' = correct
             /\ showResult' = TRUE
             /\ score' = IF correct
                         THEN [score EXCEPT !.correct = @ + 1]
                         ELSE [score EXCEPT !.incorrect = @ + 1]
             /\ answered' = answered \cup {currentIndex}
  /\ UNCHANGED <<loadVars, listVars, mode, quizFormat, quizItems, currentIndex,
                 userAnswer, choiceVars>>

\* variant of giveUp: the result is shown and nothing is counted
giveUpUncounted ==
  /\ QuizShown
  /\ quizFormat = "input"
  /\ ~showResult
  /\ score.correct + score.incorrect < MaxAnswers
  /\ alertMsg' = NoAlert
  /\ IF ~CurrentDefined
     THEN UNCHANGED <<isCorrect, showResult>>
     ELSE /\ isCorrect' = FALSE
          /\ showResult' = TRUE
  /\ UNCHANGED <<loadVars, listVars, mode, quizFormat, quizItems, currentIndex,
                 userAnswer, score, answered, choiceVars>>

\* giveUp, from the give-up button (input format, no result shown)
giveUp ==
  /\ QuizShown
  /\ quizFormat = "input"
  /\ ~showResult
  /\ score.correct + score.incorrect < MaxAnswers
  /\ alertMsg' = NoAlert
  /\ IF ~CurrentDefined
     THEN UNCHANGED <<isCorrect, showResult, score, answered>>
     ELSE /\ isCorrect' = FALSE
          /\ showResult' = TRUE
          /\ score' = [score EXCEPT !.incorrect = @ + 1]
          /\ answered' = answered \cup {currentIndex}
  /\ UNCHANGED <<loadVars, listVars, mode, quizFormat, quizItems, currentIndex,
                 userAnswer, choiceVars>>

\* variant of choiceIsCorrect: the displayed texts are compared
choiceIsCorrectByText(idx) == choices[idx + 1] = choices[correctChoiceIndex + 1]

\* the judgement of a choice button: by slot index
choiceIsCorrect(idx) == idx = correctChoiceIndex

\* onClick of the choice button of slot idx (choice format)
clickChoice(idx) ==
  /\ QuizShown
  /\ quizFormat = "choice"
  /\ idx < Len(choices)
  /\ ~showResult
  /\ score.correct + score.incorrect < MaxAnswers
  /\ LET correct == choiceIsCorrect(idx)
     IN /\ userAnswer' = choices[idx + 1]
        /\ isCorrect' = correct
        /\ showResult' = TRUE
        /\ score' = IF correct
                    THEN [score EXCEPT !.correct = @ + 1]
                    ELSE [score EXCEPT !.incorrect = @ + 1]
  /\ answered' = answered \cup {currentIndex}
  /\ alertMsg' = NoAlert
  /\ UNCHANGED <<loadVars, listVars, mode, quizFormat, quizItems, currentIndex,
                 choiceVars>>

\* variant of setQuizFormat: the input is kept
setQuizFormatKeepsInput(format) ==
  /\ QuizShown
  /\ quizFormat' = format
  /\ showResult' = FALSE
  /\ alertMsg' = NoAlert
  /\ ChoicesEffect(mode, format, quizItems, currentIndex, FALSE)
  /\ UNCHANGED <<loadVars, listVars, mode, quizItems, currentIndex, userAnswer,
                 isCorrect, score, answered>>

\* onClick of a format button of the quiz view
setQuizFormat(format) ==
  /\ QuizShown
  /\ quizFormat' = format
  /\ userAnswer' = Empty
  /\ showResult' = FALSE
  /\ alertMsg' = NoAlert
  /\ ChoicesEffect(mode, format, quizItems, currentIndex, FALSE)
  /\ UNCHANGED <<loadVars, listVars, mode, quizItems, currentIndex, isCorrect,
                 score, answered>>

\* variant of hasNextQuestion: the bound is off by one
hasNextQuestionOffByOne == currentIndex < Len(quizItems)

\* the test of nextQuestion: a question follows the current one
hasNextQuestion == currentIndex < Len(quizItems) - 1

\* variant of finalAlert: the incorrect counter is reported as 0
finalAlertStale == AlertOf([score EXCEPT !.incorrect = 0])

\* the text of the alert at the end of a session: the two counters of score
finalAlert == AlertOf(score)

\* nextQuestion, from the next button of the result view
nextQuestion ==
  /\ QuizShown
  /\ showResult
  /\ IF hasNextQuestion
     THEN /\ currentIndex' = currentIndex + 1
          /\ userAnswer' = Empty
          /\ showResult' = FALSE
          /\ alertMsg' = NoAlert
          /\ UNCHANGED mode
          /\ ChoicesEffect(mode, quizFormat, quizItems, currentIndex + 1, FALSE)
     ELSE /\ alertMsg' = finalAlert
          /\ mode' = "list"
          /\ userAnswer' = Empty
          /\ showResult' = FALSE
          /\ UNCHANGED currentIndex
          /\ ChoicesEffect("list", quizFormat, quizItems, currentIndex, FALSE)
  /\ UNCHANGED <<loadVars, listVars, quizFormat, quizItems, isCorrect, score,
                 answered>>

\* ------------------------------------------------------------------------
\* List-view handlers
\* ------------------------------------------------------------------------

\* onChange of the genre select
setSelectedGenre(genre) ==
  /\ ListShown
  /\ genre # selectedGenre
  /\ selectedGenre' = genre
  /\ alertMsg' = NoAlert
  /\ UNCHANGED <<loadVars, searchQuery, searchMode, quizVars, choiceVars, answered>>

\* onChange of the search box, and the clear-search button
setSearchQuery(query) ==
  /\ ListShown
  /\ query # searchQuery
  /\ searchQuery' = query
  /\ alertMsg' = NoAlert
  /\ UNCHANGED <<loadVars, selectedGenre, searchMode, quizVars, choiceVars, answered>>

\* onChange of the search-mode select
setSearchMode(sMode) ==
  /\ ListShown
  /\ sMode # searchMode
  /\ searchMode' = sMode
  /\ searchQuery' = Empty
  /\ alertMsg' = NoAlert
  /\ UNCHANGED <<loadVars, selectedGenre, quizVars, choiceVars, answered>>

\* ------------------------------------------------------------------------
\* Specification of the application
\* ------------------------------------------------------------------------

Load ==
  \/ \E level \in levels : SelectLevel(level)
  \/ \E level \in readyLevels, data \in Catalogs : FetchOk(level, data)
  \/ \E level \in readyLevels : FetchFail(level)

Quiz ==
  \/ startQuiz
  \/ backToList
  \/ \E text \in TypedTexts : setUserAnswer(text)
  \/ checkAnswer
  \/ giveUp
  \/ \E idx \in 0..3 : clickChoice(idx)
  \/ \E format \in QuizFormats : setQuizFormat(format)
  \/ nextQuestion

Next == Load \/ Quiz

Spec == Init /\ [][Next]_vars

\* ------------------------------------------------------------------------
\* Specification of the list view: a catalog has loaded; the user filters,
\* searches, starts sessions and comes back
\* ------------------------------------------------------------------------

\* the texts the user types into the search box
SearchQueries == {Empty, <<"b">>, <<"K">>, <<Space>>}

\* the state once the first fetch has delivered a catalog
InitLoaded(catalogs) ==
  /\ selectedLevel = 7
  /\ items \in {ItemsOf(c) : c \in catalogs}
  /\ loading = FALSE
  /\ error = ErrNull
  /\ pending = [l \in readyLevels |-> 0]
  /\ selectedGenre = GenreAll
  /\ searchQuery = Empty
  /\ searchMode = "reading"
  /\ mode = "list"
  /\ quizFormat = "input"
  /\ quizItems = <<>>
  /\ currentIndex = 0
  /\ userAnswer = Empty
  /\ showResult = FALSE
  /\ isCorrect = FALSE
  /\ score = [correct |-> 0, incorrect |-> 0]
  /\ choices = <<>>
  /\ correctChoiceIndex = -1
  /\ alertMsg = NoAlert
  /\ answered = {}

List ==
  \/ \E g \in 1..Len(genres) : setSelectedGenre(genres[g])
  \/ \E query \in SearchQueries : setSearchQuery(query)
  \/ \E sMode \in {"reading", "component"} : setSearchMode(sMode)

InitBrowse == InitLoaded(Catalogs)

NextBrowse == List \/ startQuiz \/ backToList

SpecBrowse == InitBrowse /\ [][NextBrowse]_vars

\* the candidate pool of a session start: the entries the list view shows
\* under the active genre filter and search
CandidatePool ==
  filteredItems(items.arr, selectedGenre, searchQuery, searchMode)

\* a is a permutation of b: the same entries with the same multiplicities
IsPermutation(a, b) == a \in Shuffles(b)

\* C3: starting a session while the candidate pool is empty (the catalog is
\* empty, or the genre filter or the search matches none of its entries)
\* changes nothing: the view stays the list, and the working set, the
\* position and the score stay as they were.
StartOnEmptyPoolIsNoOp ==
  [][(startQuiz /\ CandidatePool = <<>>)
       => (mode' = "list" /\ UNCHANGED <<quizItems, currentIndex, score>>)]_vars

\* C4: starting a session on a non-empty candidate pool gives a working set
\* that is a permutation of the pool (the same entries, as often, as many),
\* position 0, score 0/0, no result shown, and the format that was last in
\* use; nothing of an earlier session's score or position is left.
StartBuildsSessionFromPool ==
  [][(startQuiz /\ CandidatePool # <<>>)
       => /\ mode' = "quiz"
          /\ IsPermutation(quizItems', CandidatePool)
          /\ currentIndex' = 0
          /\ score' = [correct |-> 0, incorrect |-> 0]
          /\ showResult' = FALSE
          /\ quizFormat' = quizFormat]_vars

\* ------------------------------------------------------------------------
\* Specification of the genre filter: a catalog with any tags has loaded and
\* the user picks genres
\* ------------------------------------------------------------------------

\* the tags texts (additional_info) of the rows: none, one known genre, two
\* known genres, a known genre inside a longer text, a text that is no
\* known genre, a part of a known genre (文字 of 則天文字)
GenreTags ==
  { Empty,
    GenreDoubutsu,
    GenreJinmei \o <<"nakaguro">> \o GenreDoubutsu,
    <<"x">> \o GenreJinmei,
    <<"x">>,
    <<"mon", "ji">> }

\* the catalogs of up to MaxGenreRows rows with these tags
GenreCatalogs ==
  UNION {[1..n -> {Item(<<"a">>, t, Empty) : t \in GenreTags}] : n \in 0..MaxGenreRows}

InitGenre == InitLoaded(GenreCatalogs)

NextGenre == \E g \in 1..Len(genres) : setSelectedGenre(genres[g])

SpecGenre == InitGenre /\ [][NextGenre]_vars

\* C14: with no search active, the list under the 'all' filter is the whole
\* catalog; under a concrete genre it is exactly the entries whose tags text
\* contains the genre as a sub-string; and under 'ジャンルなし' it is exactly
\* the entries that none of the concrete known-genre filters returns.
GenreFilterPartitions ==
  ListShown =>
    LET arr == items.arr
        returnedBy(it, genre) ==
          LET kept == genreFilter(arr, genre)
          IN \E j \in 1..Len(kept) : kept[j] = it
        inNoConcrete(it) ==
          \A g \in 2..Len(genres) : genres[g] # GenreNashi => ~returnedBy(it, genres[g])
        tagged(it) ==
          \E k \in 1..Len(it.additionalInfo), l \in 0..Len(it.additionalInfo) :
            SubSeq(it.additionalInfo, k, l) = selectedGenre
    IN /\ selectedGenre = GenreAll => CandidatePool = arr
       /\ selectedGenre = GenreNashi => CandidatePool = SelectSeq(arr, inNoConcrete)
       /\ selectedGenre \notin {GenreAll, GenreNashi}
            => CandidatePool = SelectSeq(arr, tagged)

\* 'ジャンルなし' is selected on a catalog of a row tagged with a known genre
\* and a row tagged with a text that is no known genre: the second is shown
GenreFilterPartitionsWitness ==
  /\ ListShown /\ selectedGenre = GenreNashi
  /\ Len(items.arr) = 2
  /\ items.arr[1].additionalInfo = <<"x">> \o GenreJinmei
  /\ items.arr[2].additionalInfo = <<"x">>
  /\ CandidatePool = <<items.arr[2]>>

\* ------------------------------------------------------------------------
\* Properties of the quiz session (specification Spec)
\* ------------------------------------------------------------------------

\* the answers counted so far in this session
Counted == score.correct + score.incorrect

\* C1: during a session the two counters of score add up to the number of
\* positions that were answered or given up, and to at most position + 1:
\* no position is counted twice.
ScoreCountsEachPositionOnce ==
  mode = "quiz" =>
    /\ Counted = Cardinality(answered)
    /\ Counted <= currentIndex + 1

\* C2: once a result is shown the format is frozen, and the session shows a
\* question again only by advancing to the next position: no step goes from
\* Result back to Active at the same position.
FormatFrozenInResult ==
  [][(mode = "quiz" /\ showResult)
       => /\ quizFormat' = quizFormat
          /\ (mode' = "quiz" /\ ~showResult') => currentIndex' = currentIndex + 1]_vars

\* C5: while a session is active (a question or its result is shown) the
\* position is an index of the working set.
PositionInRange ==
  mode = "quiz" => (0 <= currentIndex /\ currentIndex < Len(quizItems))

\* the result of the last question of a two-question session is shown while
\* a level selection has cleared the catalog
PositionInRangeWitness ==
  /\ mode = "quiz" /\ showResult
  /\ Len(quizItems) = 2 /\ currentIndex = 1
  /\ items.null

\* C6: advancing from a result at the last position ends the session: the
\* alert carries the score as it stands, with the last answer counted, and
\* the list is shown; at any other position it moves to the next position,
\* clears the input and the result, shows the question, and in both cases
\* the score stays as it is.
AdvanceFromResult ==
  [][nextQuestion
       => /\ showResult /\ mode = "quiz"
          /\ score' = score
          /\ IF currentIndex = Len(quizItems) - 1
             THEN /\ mode' = "list"
                  /\ alertMsg' = AlertOf(score)
                  /\ currentIndex \in answered
             ELSE /\ mode' = "quiz"
                  /\ currentIndex' = currentIndex + 1
                  /\ userAnswer' = Empty
                  /\ showResult' = FALSE
                  /\ alertMsg' = NoAlert]_vars

\* a two-question session has just ended: the alert shows both answers and
\* the list is back
AdvanceFromResultWitness ==
  /\ alertMsg.shown /\ alertMsg.correct + alertMsg.incorrect = 2
  /\ mode = "list" /\ ~showResult
  /\ Len(quizItems) = 2 /\ currentIndex = 1 /\ answered = {0, 1}

\* C8: in choice format the stored choice set belongs to the current
\* position: it has four slots and the slot at the stored correct index
\* holds the core of the current entry's reading, so a choice click is
\* judged against the question that is shown.
ChoiceSetIsCurrent ==
  (mode = "quiz" /\ quizFormat = "choice")
    => /\ Len(choices) = 4
       /\ correctChoiceIndex \in 0..3
       /\ choices[correctChoiceIndex + 1] = extractReadingCore(CurrentItem.reading)

\* a choice was accepted and judged correct at the second position, whose
\* core differs from that of the first
ChoiceSetIsCurrentWitness ==
  /\ mode = "quiz" /\ quizFormat = "choice" /\ showResult /\ isCorrect
  /\ currentIndex = 1
  /\ extractReadingCore(quizItems[1].reading) # extractReadingCore(quizItems[2].reading)

\* C9: a click on the choice button of slot idx is judged correct exactly
\* when idx is the correct index, whatever the slots display, and adds one
\* to the correct counter then and to the incorrect counter otherwise.
ChoiceJudgedByIndex ==
  [][\A idx \in 0..3 :
       clickChoice(idx)
         => /\ isCorrect' = (idx = correctChoiceIndex)
            /\ showResult'
            /\ score' = IF idx = correctChoiceIndex
                        THEN [score EXCEPT !.correct = @ + 1]
                        ELSE [score EXCEPT !.incorrect = @ + 1]]_vars

\* a click on a slot that displays the text of the correct slot was judged
\* incorrect
ChoiceJudgedByIndexWitness ==
  /\ mode = "quiz" /\ quizFormat = "choice" /\ showResult
  /\ ~isCorrect
  /\ userAnswer = choices[correctChoiceIndex + 1]
  /\ score.incorrect = 1 /\ score.correct = 0

\* C19: changing the quiz format clears the pending user input and leaves
\* the score, the position and the working set unchanged.
FormatChangeKeepsSession ==
  [][\A format \in QuizFormats :
       setQuizFormat(format)
         => /\ quizFormat' = format
            /\ userAnswer' = Empty
            /\ UNCHANGED <<score, currentIndex, quizItems>>]_vars

\* at the second position, with one answer counted, the format was changed
\* to choice after "a" had been typed: the input is empty, the score is kept
FormatChangeKeepsSessionWitness ==
  /\ mode = "quiz" /\ quizFormat = "choice" /\ ~showResult
  /\ currentIndex = 1 /\ Counted = 1 /\ Len(quizItems) = 2
  /\ userAnswer = Empty

\* C20: after a session has started, its working set (the entries and their
\* order) stays as it is while the session lasts: submit, give up, advance,
\* format change, and a level selection that reloads or clears the catalog
\* leave it unchanged.
WorkingSetFixed ==
  [][(mode = "quiz" /\ mode' = "quiz") => quizItems' = quizItems]_vars

\* a session goes on at its second position after a level selection cleared
\* the catalog and the fetch of the new level failed
WorkingSetFixedWitness ==
  /\ mode = "quiz" /\ ~showResult
  /\ Len(quizItems) = 2 /\ currentIndex = 1
  /\ selectedLevel = 8 /\ items.null /\ error = ErrLoadFailed

\* C23: no question is passed over unscored and the position never goes
\* back in a session: nextQuestion runs only while a result is shown; the
\* position changes in a session only by one, through nextQuestion; while a
\* question is shown the answers counted are at least the position, while
\* its result is shown at least the position plus one; and the score
\* alerted at the end counts at least as many answers as the working set
\* has entries.
NoQuestionSkipped ==
  /\ [](mode = "quiz"
          => Counted >= (IF showResult THEN currentIndex + 1 ELSE currentIndex))
  /\ [][/\ nextQuestion => (mode = "quiz" /\ showResult)
        /\ (mode = "quiz" /\ mode' = "quiz" /\ currentIndex' # currentIndex)
             => (nextQuestion /\ currentIndex' = currentIndex + 1)
        /\ alertMsg'.shown
             => alertMsg'.correct + alertMsg'.incorrect >= Len(quizItems)]_vars

\* the result of the second question is shown in choice format after a give
\* up at the first: two answers are counted, none correct
NoQuestionSkippedWitness ==
  /\ mode = "quiz" /\ showResult /\ quizFormat = "choice"
  /\ currentIndex = 1 /\ Len(quizItems) = 2
  /\ score = [correct |-> 0, incorrect |-> 2] /\ answered = {0, 1}

\* ------------------------------------------------------------------------
\* Properties of loading (specification Spec)
\* ------------------------------------------------------------------------

\* C15: while a fetch is pending the catalog is undefined, and neither the
\* list view (genre filter, search, start button) nor the quiz view (submit,
\* give up, next, format buttons) is rendered, so none of their operations
\* is enabled.
NothingEnabledWhilePending ==
  InFlight > 0 => (items.null /\ ~ListShown /\ ~QuizShown)

\* C16: selecting a level other than 7 and 8 starts no fetch and leaves the
\* not-ready message, loading false and no catalog.
NotReadyLevelNeverFetches ==
  [][\A level \in levels \ {7, 8} :
       SelectLevel(level)
         => /\ pending' = pending
            /\ error' = ErrNotReady
            /\ ~loading'
            /\ items'.null]_vars

\* level 5 was selected while the first fetch was in flight: no fetch was
\* added, and the not-ready state shows
NotReadyLevelNeverFetchesWitness ==
  /\ selectedLevel = 5 /\ error = ErrNotReady /\ ~loading /\ items.null
  /\ pending = [l \in readyLevels |-> IF l = 7 THEN 1 ELSE 0]

\* C17: when the fetch for the selected level fails, the loading-failure
\* message shows, loading is false and the catalog is undefined; and a fetch
\* is started only by a step that changes the selected level.
FailedFetchLeavesNoCatalog ==
  [][/\ \A level \in readyLevels :
          (FetchFail(level) /\ level = selectedLevel)
            => (error' = ErrLoadFailed /\ ~loading' /\ items'.null)
     /\ (\E level \in readyLevels : pending'[level] > pending[level])
          => selectedLevel' # selectedLevel]_vars

\* C22: a response of a fetch started for a level that is no longer the
\* selected one installs no catalog and changes neither the loading flag nor
\* the error; and while a fetch for the selected level is pending the
\* loading flag stays true, so that once every fetch has been handled a
\* catalog that shows is one of the selected level.
StaleResponseIgnored ==
  [][/\ \A level \in readyLevels :
          (level # selectedLevel
             /\ ((\E data \in Catalogs : FetchOk(level, data)) \/ FetchFail(level)))
            => UNCHANGED <<items, loading, error>>
     /\ (selectedLevel' \in readyLevels /\ pending'[selectedLevel'] > 0) => loading'
     /\ (InFlight' = 0 /\ ~items'.null) => selectedLevel' \in readyLevels]_vars

\* ------------------------------------------------------------------------
\* Specification of answer validation: sessions over a one-row catalog with
\* any reading, where the user types the core of an alternative and submits
\* ------------------------------------------------------------------------

\* the characters of the readings: a kana, the okurigana quote, the
\* separator of alternatives, a space
ReadingAlphabet == {"a", Apostrophe, Touten, Space}

\* the readings load() can produce (it trims every field of a row)
Readings == {r \in StringsUpTo(ReadingAlphabet, MaxReadingLen) : Trim(r) = r}

\* the alternatives of the current entry: its reading split on the separator
Alternatives == Split(CurrentItem.reading, Touten)

InitAnswer == InitLoaded({<<Item(r, Empty, Empty)>> : r \in Readings})

NextAnswer ==
  \/ startQuiz
  \/ /\ mode = "quiz"
     /\ \E o \in 1..Len(Alternatives) : setUserAnswer(extractReadingCore(Alternatives[o]))
  \/ checkAnswer
  \/ nextQuestion

SpecAnswer == InitAnswer /\ [][NextAnswer]_vars

\* C10: when the submitted text is the core of one of the alternatives of
\* the current entry's reading, checkAnswer judges it correct.
CoreOfAlternativeAccepted ==
  [][(/\ checkAnswer
      /\ CurrentDefined
      /\ \E o \in 1..Len(Alternatives) : userAnswer = extractReadingCore(Alternatives[o]))
       => (showResult' /\ isCorrect')]_vars

\* C11: an entry whose reading is the empty string matches nothing: no
\* submission in input format, whatever the text (the Enter key submits
\* empty and white-space text too), is judged correct for it.
EmptyReadingMatchesNothing ==
  [][(checkAnswer /\ CurrentDefined /\ CurrentItem.reading = Empty)
       => ~isCorrect']_vars

\* the readings the view passes to formatReadingWithOkurigana: those of the
\* cards of the list view and that of the result of the quiz view
renderedReadings ==
  (IF ListShown
   THEN {CandidatePool[i].reading : i \in 1..Len(CandidatePool)}
   ELSE {})
  \cup (IF QuizShown /\ showResult /\ CurrentDefined
        THEN {CurrentItem.reading}
        ELSE {})

\* the number of single quotes of a string, and the string without them
quoteCount(s) ==
  LET isQuote(c) == c = Apostrophe IN Len(SelectSeq(s, isQuote))
withoutQuotes(s) ==
  LET noQuote(c) == c # Apostrophe IN SelectSeq(s, noQuote)

\* the texts of the segments of a rendered reading, concatenated
renderedText(reading) ==
  LET segs == formatReadingWithOkurigana(reading)
  IN Join([i \in 1..Len(segs) |-> segs[i].text])

\* C12: for every rendered reading with an even number of single quotes, the
\* texts of the segments, concatenated in order, are the reading with every
\* single quote removed.
RenderKeepsTextWithoutQuotes ==
  \A r \in renderedReadings :
    quoteCount(r) % 2 = 0 => renderedText(r) = withoutQuotes(r)

\* the strings checkAnswer passes to extractReadingCore for the question
\* shown: the trimmed alternatives of its reading
coreInputs ==
  IF QuizShown /\ CurrentDefined
  THEN {Trim(Alternatives[o]) : o \in 1..Len(Alternatives)}
  ELSE {}

\* C13: core is idempotent: the core of the core of a string is its core,
\* also for a string with an odd number of single quotes or with an empty
\* quoted span.
CoreIsIdempotent ==
  \A s \in coreInputs :
    extractReadingCore(extractReadingCore(s)) = extractReadingCore(s)

\* an answer was judged for a reading with three quotes, the first two of
\* them an empty span: its core keeps the last quote
CoreIsIdempotentWitness ==
  /\ mode = "quiz" /\ showResult
  /\ CurrentItem.reading = <<Apostrophe, Apostrophe, "a", Apostrophe>>
  /\ extractReadingCore(CurrentItem.reading) = <<"a", Apostrophe>>

\* ------------------------------------------------------------------------
\* Specification of row mapping: the fetch delivers a CSV file of a header
\* and one data row of any number of fields
\* ------------------------------------------------------------------------

\* the header lines, trimmed and lower-cased: the identifying field first
\* as 'path', and second as 'filename'
RowHeaders ==
  { <<"path", "reading", "meaning", "additional_info", "components">>,
    <<"reading", "filename", "meaning", "additional_info", "components">> }

\* the data rows as parseCSVLine returns them: one to MaxCols fields, each
\* empty, a text, or a path that starts with a slash
RowCols ==
  UNION {[1..n -> {Empty, <<"x">>, <<"/", "x">>}] : n \in 1..MaxCols}

NextRows ==
  \/ \E level \in levels : SelectLevel(level)
  \/ \E level \in readyLevels, header \in RowHeaders, cols \in RowCols :
       FetchOk(level, <<mapRow(header, cols)>>)

SpecRows == Init /\ [][NextRows]_vars

\* the row supplies the field named name of the header
rowSupplies(header, cols, name) ==
  \E i \in 1..Len(cols) : i <= Len(header) /\ header[i] = name

\* the properties of an Item and the header fields they are read from
itemFieldsOf(header) ==
  { <<"filename", filenameField(header)>>,
    <<"reading", "reading">>,
    <<"meaning", "meaning">>,
    <<"additionalInfo", "additional_info">>,
    <<"components", "components">> }

\* C18: for a data row with fewer fields than the header, every property of
\* the entry whose field the row does not supply (the identifying field,
\* reading, meaning, additional_info, components) is the empty string.
MissingFieldsAreEmpty ==
  [][\A level \in readyLevels, header \in RowHeaders, cols \in RowCols :
       (FetchOk(level, <<mapRow(header, cols)>>) /\ Len(cols) < Len(header))
         => \A f \in itemFieldsOf(header) :
              ~rowSupplies(header, cols, f[2]) => items'.arr[1][f[1]] = Empty]_vars

\* ------------------------------------------------------------------------
\* Specification of line parsing: the fetch delivers a CSV file of a header
\* and one data line of any characters
\* ------------------------------------------------------------------------

\* the header of the file, parsed, trimmed and lower-cased
CsvHeader == <<"path", "reading", "meaning", "additional_info", "components">>

\* the data lines (load() drops the empty ones): a letter, commas and
\* double quotes in any order
CsvLines ==
  StringsUpTo({"x", Comma, DQuote}, MaxLineLen) \ {Empty}

\* the catalog load() builds from a file with this one data line
catalogOfLine(line) == <<mapRow(CsvHeader, parseCSVLine(line))>>

NextCsv ==
  \/ \E level \in levels : SelectLevel(level)
  \/ \E level \in readyLevels, line \in CsvLines : FetchOk(level, catalogOfLine(line))

SpecCsv == Init /\ [][NextCsv]_vars

\* the catalog is the one load() builds from a file with this data line
loadedFrom(line) ==
  /\ ~items.null
  /\ Len(items.arr) = 1
  /\ LET built == mapRow(CsvHeader, parseCSVLine(line))
     IN \A f \in {"filename", "reading", "meaning", "imageUrl", "additionalInfo",
                  "components"} : items.arr[1][f] = built[f]

\* character i of the line is met in quote mode: an odd number of double
\* quotes comes before it
inQuoteMode(line, i) ==
  Cardinality({j \in 1..(i - 1) : line[j] = DQuote}) % 2 = 1

\* the positions of the commas met outside quote mode
separators(line) ==
  {i \in 1..Len(line) : line[i] = Comma /\ ~inQuoteMode(line, i)}

\* the text of the line between its k-th and its next separator (the ends of
\* the line counting as separators), without the double quotes
fieldText(line, k) ==
  LET seps == separators(line)
      below(i) == Cardinality({j \in seps : j < i})
      inField(i) == line[i] # DQuote /\ i \notin seps /\ below(i) = k - 1
      idx == {i \in 1..Len(line) : inField(i)}
      nth[n \in 0..Len(line)] ==
        IF n = 0 THEN Empty
        ELSE IF n \in idx THEN Append(nth[n - 1], line[n]) ELSE nth[n - 1]
  IN nth[Len(line)]

\* C21: for every line the catalog was parsed from, parseCSVLine returns one
\* field more than the line has commas outside quote mode; each field is the
\* text between two such commas with its double quotes removed, so a comma
\* met in quote mode is part of its field and no field holds a double quote.
FieldsSplitOutsideQuotes ==
  \A line \in CsvLines :
    loadedFrom(line)
      => LET fields == parseCSVLine(line)
         IN /\ Len(fields) = 1 + Cardinality(separators(line))
            /\ \A k \in 1..Len(fields) :
                 /\ fields[k] = fieldText(line, k)
                 /\ \A c \in 1..Len(fields[k]) : fields[k][c] # DQuote
            /\ \A i \in 1..Len(line) :
                 (line[i] = Comma /\ inQuoteMode(line, i))
                   => \E k \in 1..Len(fields) :
                        \E c \in 1..Len(fields[k]) : fields[k][c] = Comma

\* the catalog of the line x,"," has loaded: two fields, the second a comma
FieldsSplitOutsideQuotesWitness ==
  /\ ~items.null /\ Len(items.arr) = 1
  /\ items.arr[1].filename = <<"x">>
  /\ items.arr[1].reading = <<Comma>>
  /\ items.arr[1].meaning = Undefined

\* ------------------------------------------------------------------------
\* Specification of choice generation: sessions in either format over any
\* small catalog, started and switched between the formats
\* ------------------------------------------------------------------------

\* readings with distinct cores, and two readings that share a core
ChoiceReadings ==
  { <<"a">>, <<"b">>, <<"b", Apostrophe, "x", Apostrophe>>, <<"c">> }

\* the catalogs of one to MaxPool rows with these readings
ChoicePools ==
  UNION {[1..n -> {Item(r, Empty, Empty) : r \in ChoiceReadings}] : n \in 1..MaxPool}

InitChoices == InitLoaded(ChoicePools)

NextChoices ==
  \/ startQuiz
  \/ \E format \in QuizFormats : setQuizFormat(format)

SpecChoices == InitChoices /\ [][NextChoices]_vars

\* the raw readings of the entries generateChoices draws wrong answers from
OtherReadings ==
  LET others == choiceOthers(CurrentItem, quizItems)
  IN {others[i].reading : i \in 1..Len(others)}

\* C7: the choice set generated for the current entry has four slots and a
\* correct index in 0..3 whose slot holds the core of the entry's reading;
\* and when the entries with another raw reading carry at least three
\* distinct readings, the four displayed texts are pairwise distinct.
ChoiceSetWellFormed ==
  (mode = "quiz" /\ quizFormat = "choice")
    => /\ Len(choices) = 4
       /\ correctChoiceIndex \in 0..3
       /\ choices[correctChoiceIndex + 1] = extractReadingCore(CurrentItem.reading)
       /\ Cardinality(OtherReadings) >= 3
            => \A i, j \in 1..4 : i # j => choices[i] # choices[j]

====
